---- MODULE Spec2Model ----
(***************************************************************************)
(* Model of the iterator library in src/iterators: the lazy generators of  *)
(* streams.ts / streams.js and their array twins of lists.js.              *)
(*                                                                         *)
(* A generator is modelled as a frame (its local variables and the place   *)
(* it is suspended at) that a consumer drives to exhaustion.  Two frames   *)
(* exist: frame 1 (pc, pulled, ...) and frame 2 (pc2, pulled2, ...), the   *)
(* second one running a twin operator on a fresh copy of the same input    *)
(* once the first has been drained.                                        *)
(***************************************************************************)
EXTENDS Integers, Sequences, FiniteSets

VARIABLES
  op,         \* the operator under execution
  iterable,   \* the input list the source generator (listToStream) yields
  count,      \* chunkEvery's argument count
  step,       \* chunkEvery's argument step
  n,          \* the argument n of take / drop / dropEvery
  fun,        \* the name of the function argument (reduce, maxBy, dedup)
  initial,    \* reduce's argument initial
  endless,    \* TRUE when the source never ends (it yields 1, 2, 3, ...)
  pc,         \* frame 1: where the generator / loop stands
  pulled,     \* frame 1: number of elements obtained from the source
  cnt,        \* frame 1: the local counter `count` of take / drop
  i,          \* frame 1: chunkEvery's local i
  currents,   \* frame 1: chunkEvery's open windows, newest first
  k,          \* frame 1: index of the trailing for-of over currents
  acc,        \* frame 1: reduce's accumulator
  lastValue,  \* frame 1: dedup's lastValue
  calls,      \* frame 1: the applications of reduce's fun, <<acc, item>>
  out,        \* frame 1: the elements yielded so far
  ret,        \* frame 1: the generator's return value
  err,        \* frame 1: the error thrown, "none" if none
  current,    \* frame 1: chunkBy's group under construction
  repulls,    \* frame 1: next() calls answered after the generator finished
  pc2, pulled2, cnt2, i2, currents2, k2, out2, err2,   \* frame 2
  lastValue2  \* frame 2: dedup's lastValue

callVars == <<op, iterable, count, step, n, fun, initial, endless>>
frame1 ==
  <<pc, pulled, cnt, i, currents, k, acc, lastValue, calls, out, ret, err,
    current, repulls>>
frame2 == <<pc2, pulled2, cnt2, i2, currents2, k2, out2, err2, lastValue2>>
vars == <<callVars, frame1, frame2>>

----------------------------------------------------------------------------
(* Bounds of the model *)

MaxLen == 4      \* longest input list
MaxElem == 2     \* the elements are 1..MaxElem
MaxArg == 3      \* largest count / step / n
MaxRepull == 2   \* next() calls made on a finished generator

Elems == 1..MaxElem
Args == -1..MaxArg

SeqsUpTo(S, m) == UNION {[1..l -> S] : l \in 0..m}

\* The JavaScript value undefined, encoded as 0 (outside Elems).
Undefined == 0

Min(a, b) == IF a <= b THEN a ELSE b

----------------------------------------------------------------------------
(* JavaScript arithmetic used by the operators *)

\* `a % b === 0` for a >= 0: a % 0 is NaN, and the remainder takes the sign
\* of the dividend, so a negative b divides as its absolute value does.
RemIsZero(a, b) ==
  /\ b # 0
  /\ a % (IF b < 0 THEN 0 - b ELSE b) = 0

----------------------------------------------------------------------------
(* Frames at rest *)

Frame1Rest(start) ==
  /\ pc = start
  /\ pulled = 0
  /\ cnt = 0
  /\ i = 0
  /\ currents = <<>>
  /\ k = 0
  /\ acc = Undefined
  /\ lastValue = Undefined
  /\ calls = <<>>
  /\ out = <<>>
  /\ ret = "undefined"
  /\ err = "none"
  /\ current = <<>>
  /\ repulls = 0

Frame2Rest(start) ==
  /\ pc2 = start
  /\ pulled2 = 0
  /\ cnt2 = 0
  /\ i2 = 0
  /\ currents2 = <<>>
  /\ k2 = 0
  /\ out2 = <<>>
  /\ err2 = "none"
  /\ lastValue2 = Undefined

\* Frame 1 has been drained: the consumer's spread [...gen] has returned.
Drained1 == pc = "done"

----------------------------------------------------------------------------
(* streams.ts chunkEvery (frame 1) *)

\* Mutation of ChunkEveryPull: ++i instead of i++ in line 69.
ChunkEveryPullPreInc ==
  /\ op = "chunkEvery"
  /\ pc = "loop"
  /\ pulled < Len(iterable)
  /\ pulled' = pulled + 1
  /\ currents' = IF RemIsZero(i + 1, step) THEN << <<>> >> \o currents ELSE currents
  /\ i' = i + 1
  /\ pc' = "push"
  /\ UNCHANGED <<callVars, current, repulls, cnt, k, acc, lastValue, calls, out, ret, err, frame2>>

\* for (const item of iterable): obtain the next item; line 69 opens a new
\* window at the front of currents every step elements.
ChunkEveryPull ==
  /\ op = "chunkEvery"
  /\ pc = "loop"
  /\ pulled < Len(iterable)
  /\ pulled' = pulled + 1
  /\ currents' = IF RemIsZero(i, step) THEN << <<>> >> \o currents ELSE currents
  /\ i' = i + 1
  /\ pc' = "push"
  /\ UNCHANGED <<callVars, current, repulls, cnt, k, acc, lastValue, calls, out, ret, err, frame2>>

\* lines 70-72: every open window receives the item.
ChunkEveryPush ==
  /\ op = "chunkEvery"
  /\ pc = "push"
  /\ currents' = [j \in DOMAIN currents |-> Append(currents[j], iterable[pulled])]
  /\ pc' = "check"
  /\ UNCHANGED <<callVars, current, repulls, pulled, cnt, i, k, acc, lastValue, calls, out, ret, err, frame2>>

\* line 73: currents[currents.length - 1]?.length === count
LastIsFull(cs, c) == cs # <<>> /\ Len(cs[Len(cs)]) = c

\* line 74: the last window is yielded; the generator is suspended there.
ChunkEveryYield ==
  /\ op = "chunkEvery"
  /\ pc = "check"
  /\ LastIsFull(currents, count)
  /\ out' = Append(out, currents[Len(currents)])
  /\ pc' = "yielded"
  /\ UNCHANGED <<callVars, current, repulls, pulled, cnt, i, currents, k, acc, lastValue, calls, ret, err, frame2>>

\* line 73 false: next iteration.
ChunkEverySkip ==
  /\ op = "chunkEvery"
  /\ pc = "check"
  /\ ~LastIsFull(currents, count)
  /\ pc' = "loop"
  /\ UNCHANGED <<callVars, current, repulls, pulled, cnt, i, currents, k, acc, lastValue, calls, out, ret, err, frame2>>

\* Mutation of ChunkEveryPop: shift() instead of pop() in line 75.
ChunkEveryShift ==
  /\ op = "chunkEvery"
  /\ pc = "yielded"
  /\ currents' = Tail(currents)
  /\ pc' = "loop"
  /\ UNCHANGED <<callVars, current, repulls, pulled, cnt, i, k, acc, lastValue, calls, out, ret, err, frame2>>

\* line 75: on resumption the yielded window is removed.
ChunkEveryPop ==
  /\ op = "chunkEvery"
  /\ pc = "yielded"
  /\ currents' = SubSeq(currents, 1, Len(currents) - 1)
  /\ pc' = "loop"
  /\ UNCHANGED <<callVars, current, repulls, pulled, cnt, i, k, acc, lastValue, calls, out, ret, err, frame2>>

\* the source is exhausted: the for-of of line 68 ends, line 78 starts.
ChunkEveryExhausted ==
  /\ op = "chunkEvery"
  /\ pc = "loop"
  /\ pulled = Len(iterable)
  /\ k' = 1
  /\ pc' = "drain"
  /\ UNCHANGED <<callVars, current, repulls, pulled, cnt, i, currents, acc, lastValue, calls, out, ret, err, frame2>>

\* Mutation of ChunkEveryDrain: the windows left at exhaustion are discarded.
ChunkEveryDrainDiscard ==
  /\ op = "chunkEvery"
  /\ pc = "drain"
  /\ k <= Len(currents)
  /\ k' = k + 1
  /\ UNCHANGED <<callVars, current, repulls, pc, pulled, cnt, i, currents, acc, lastValue, calls, out, ret, err, frame2>>

\* lines 78-80: the remaining windows are yielded in array order.
ChunkEveryDrain ==
  /\ op = "chunkEvery"
  /\ pc = "drain"
  /\ k <= Len(currents)
  /\ out' = Append(out, currents[k])
  /\ k' = k + 1
  /\ UNCHANGED <<callVars, current, repulls, pc, pulled, cnt, i, currents, acc, lastValue, calls, ret, err, frame2>>

\* line 81: the generator returns.
ChunkEveryReturn ==
  /\ op = "chunkEvery"
  /\ pc = "drain"
  /\ k > Len(currents)
  /\ pc' = "done"
  /\ UNCHANGED <<callVars, current, repulls, pulled, cnt, i, currents, k, acc, lastValue, calls, out, ret, err, frame2>>

----------------------------------------------------------------------------
(* streams.ts dropEvery (frame 1) *)

\* lines 143-145: a generator function whose body is a single return.  The
\* first next() builds the lazy chain concat(map(chunkEvery(..), ..))
\* without pulling from it and finishes the generator with the chain as its
\* return value: nothing is yielded.
DropEveryNext ==
  /\ op = "dropEvery"
  /\ pc = "start"
  /\ ret' = "concat(map(chunkEvery(iterable, n), drop1))"
  /\ pc' = "done"
  /\ UNCHANGED <<callVars, current, repulls, pulled, cnt, i, currents, k, acc, lastValue, calls, out, err, frame2>>

----------------------------------------------------------------------------
(* lists.js chunkEvery (frame 2), one loop iteration per step *)

ChunkEveryLOpened ==
  LET opened == IF RemIsZero(i2, step) THEN << <<>> >> \o currents2 ELSE currents2
  IN  [j \in DOMAIN opened |-> Append(opened[j], iterable[pulled2 + 1])]

\* lines 76-84, when line 81 does not throw.
ChunkEveryLIter ==
  /\ op = "chunkEvery"
  /\ Drained1
  /\ pc2 = "loop"
  /\ pulled2 < Len(iterable)
  /\ ChunkEveryLOpened # <<>>
  /\ pulled2' = pulled2 + 1
  /\ i2' = i2 + 1
  /\ LET cs == ChunkEveryLOpened
     IN  IF Len(cs[Len(cs)]) = count
           THEN /\ out2' = Append(out2, cs[Len(cs)])
                /\ currents2' = SubSeq(cs, 1, Len(cs) - 1)
           ELSE /\ out2' = out2
                /\ currents2' = cs
  /\ UNCHANGED <<callVars, frame1, lastValue2, pc2, cnt2, k2, err2>>

\* line 81: currents[currents.length - 1].length with currents empty reads
\* a property of undefined, a TypeError that ends the generator.
ChunkEveryLThrow ==
  /\ op = "chunkEvery"
  /\ Drained1
  /\ pc2 = "loop"
  /\ pulled2 < Len(iterable)
  /\ ChunkEveryLOpened = <<>>
  /\ pulled2' = pulled2 + 1
  /\ i2' = i2 + 1
  /\ err2' = "TypeError"
  /\ pc2' = "threw"
  /\ UNCHANGED <<callVars, frame1, lastValue2, cnt2, currents2, k2, out2>>

ChunkEveryLExhausted ==
  /\ op = "chunkEvery"
  /\ Drained1
  /\ pc2 = "loop"
  /\ pulled2 = Len(iterable)
  /\ k2' = 1
  /\ pc2' = "drain"
  /\ UNCHANGED <<callVars, frame1, lastValue2, pulled2, cnt2, i2, currents2, out2, err2>>

\* lines 85-87
ChunkEveryLDrain ==
  /\ op = "chunkEvery"
  /\ pc2 = "drain"
  /\ k2 <= Len(currents2)
  /\ out2' = Append(out2, currents2[k2])
  /\ k2' = k2 + 1
  /\ UNCHANGED <<callVars, frame1, lastValue2, pc2, pulled2, cnt2, i2, currents2, err2>>

ChunkEveryLReturn ==
  /\ op = "chunkEvery"
  /\ pc2 = "drain"
  /\ k2 > Len(currents2)
  /\ pc2' = "done"
  /\ UNCHANGED <<callVars, frame1, lastValue2, pulled2, cnt2, i2, currents2, k2, out2, err2>>

----------------------------------------------------------------------------
(* lists.js dropEvery (frame 2) *)

\* lines 149-153: ++count % n !== 0 decides whether the item is yielded.
DropEveryLIter ==
  /\ op = "dropEvery"
  /\ Drained1
  /\ pc2 = "loop"
  /\ pulled2 < Len(iterable)
  /\ pulled2' = pulled2 + 1
  /\ cnt2' = cnt2 + 1
  /\ out2' = IF RemIsZero(cnt2 + 1, n)
               THEN out2
               ELSE Append(out2, iterable[pulled2 + 1])
  /\ UNCHANGED <<callVars, frame1, lastValue2, pc2, i2, currents2, k2, err2>>

DropEveryLReturn ==
  /\ op = "dropEvery"
  /\ Drained1
  /\ pc2 = "loop"
  /\ pulled2 = Len(iterable)
  /\ pc2' = "done"
  /\ UNCHANGED <<callVars, frame1, lastValue2, pulled2, cnt2, i2, currents2, k2, out2, err2>>

----------------------------------------------------------------------------
(* The windowing operators: chunkEvery and dropEvery, each drained from    *)
(* streams.ts and then from lists.js on the same input.                    *)

InitWindow ==
  /\ iterable \in SeqsUpTo(Elems, MaxLen)
  /\ fun = "none"
  /\ initial = Undefined
  /\ endless = FALSE
  /\ \/ /\ op = "chunkEvery"
        /\ count \in Args
        /\ step \in Args
        /\ n = 1
        /\ Frame1Rest("loop")
     \/ /\ op = "dropEvery"
        /\ count = 1
        /\ step = 1
        /\ n \in Args
        /\ Frame1Rest("start")
  /\ Frame2Rest("loop")

NextWindow ==
  \/ ChunkEveryPull
  \/ ChunkEveryPush
  \/ ChunkEveryYield
  \/ ChunkEverySkip
  \/ ChunkEveryPop
  \/ ChunkEveryExhausted
  \/ ChunkEveryDrain
  \/ ChunkEveryReturn
  \/ DropEveryNext
  \/ ChunkEveryLIter
  \/ ChunkEveryLThrow
  \/ ChunkEveryLExhausted
  \/ ChunkEveryLDrain
  \/ ChunkEveryLReturn
  \/ DropEveryLIter
  \/ DropEveryLReturn

SpecWindow == InitWindow /\ [][NextWindow]_vars

----------------------------------------------------------------------------
(* The source generator *)

\* The source has a p-th element.
SrcHas(p) == endless \/ p <= Len(iterable)

\* The p-th element the source yields.
SrcItem(p) == IF endless THEN p ELSE iterable[p]

----------------------------------------------------------------------------
(* streams.js take (frame 1), one consumer next() per step *)

\* Mutation of TakeStops: > instead of >= in line 466.
TakeStopsLate(c, m) == c > m

\* line 466: count++ >= n, on the value of count before the increment.
TakeStops(c, m) == c >= m

\* lines 465-469: the for-of obtains an item, the test fails, the item is
\* yielded.
TakeYield ==
  /\ op = "take"
  /\ pc = "loop"
  /\ SrcHas(pulled + 1)
  /\ ~TakeStops(cnt, n)
  /\ pulled' = pulled + 1
  /\ cnt' = cnt + 1
  /\ out' = Append(out, SrcItem(pulled + 1))
  /\ UNCHANGED <<callVars, current, repulls, pc, i, currents, k, acc, lastValue, calls, ret, err, frame2>>

\* lines 465-467: the for-of obtains an item, the test holds, break.
TakeBreak ==
  /\ op = "take"
  /\ pc = "loop"
  /\ SrcHas(pulled + 1)
  /\ TakeStops(cnt, n)
  /\ pulled' = pulled + 1
  /\ cnt' = cnt + 1
  /\ pc' = "done"
  /\ UNCHANGED <<callVars, current, repulls, i, currents, k, acc, lastValue, calls, out, ret, err, frame2>>

\* line 465: the source is exhausted, the for-of ends.
TakeExhausted ==
  /\ op = "take"
  /\ pc = "loop"
  /\ ~SrcHas(pulled + 1)
  /\ pc' = "done"
  /\ UNCHANGED <<callVars, current, repulls, pulled, cnt, i, currents, k, acc, lastValue, calls, out, ret, err, frame2>>

----------------------------------------------------------------------------
(* streams.ts drop (frame 2), on a fresh copy of a finite source *)

\* lines 132-136: one iteration of the for-of.
DropIter ==
  /\ op = "take"
  /\ Drained1
  /\ ~endless
  /\ pc2 = "loop"
  /\ pulled2 < Len(iterable)
  /\ pulled2' = pulled2 + 1
  /\ cnt2' = cnt2 + 1
  /\ out2' = IF cnt2 >= n THEN Append(out2, iterable[pulled2 + 1]) ELSE out2
  /\ UNCHANGED <<callVars, frame1, lastValue2, pc2, i2, currents2, k2, err2>>

DropReturn ==
  /\ op = "take"
  /\ Drained1
  /\ ~endless
  /\ pc2 = "loop"
  /\ pulled2 = Len(iterable)
  /\ pc2' = "done"
  /\ UNCHANGED <<callVars, frame1, lastValue2, pulled2, cnt2, i2, currents2, k2, out2, err2>>

(* take(S, n) drained, then drop(S, n) drained on another copy of S. *)

InitTake ==
  /\ op = "take"
  /\ \/ endless = FALSE /\ iterable \in SeqsUpTo(Elems, MaxLen)
     \/ endless = TRUE /\ iterable = <<>>
  /\ count = 1
  /\ step = 1
  /\ n \in 0..MaxArg
  /\ fun = "none"
  /\ initial = Undefined
  /\ Frame1Rest("loop")
  /\ Frame2Rest("loop")

NextTake ==
  \/ TakeYield
  \/ TakeBreak
  \/ TakeExhausted
  \/ DropIter
  \/ DropReturn

SpecTake == InitTake /\ [][NextTake]_vars

----------------------------------------------------------------------------
(* Function arguments, by name *)

\* The combining functions passed to reduce.
Combiners == {"sum", "keep", "last", "void", "voidOnRepeat"}

\* fun(acc, x) for the combining function named f.  "sum" is the function
\* of the reduce test; "void" is a function without a return value.
Combine(f, a, x) ==
  CASE f = "sum" -> a + x
    [] f = "keep" -> a
    [] f = "last" -> x
    [] f = "void" -> Undefined
    [] f = "voidOnRepeat" -> IF a = x THEN Undefined ELSE x

\* The numeric key functions passed to maxBy.
NumKeys == {"identity", "negate", "constant"}

\* The key functions passed to dedup; "noKey" reads a property no element
\* has, which is undefined.
DedupKeys == {"identity", "constant", "noKey"}

\* fun(x) for the key function named f.
Key(f, x) ==
  CASE f = "identity" -> x
    [] f = "negate" -> 0 - x
    [] f = "constant" -> 1
    [] f = "noKey" -> Undefined

\* a <= b in JavaScript: false as soon as one side is undefined.
JSLe(a, b) == a # Undefined /\ b # Undefined /\ a <= b

----------------------------------------------------------------------------
(* streams.ts reduce, max and maxBy (frame 1) *)

\* line 383: the function max hands to reduce, with the default sorter.
MaxFun(a, b) == IF JSLe(a, b) THEN b ELSE a

\* line 394: the function maxBy hands to reduce, with the default sorter.
MaxByFun(f, a, b) == IF JSLe(Key(f, a), Key(f, b)) THEN a ELSE b

\* The second argument of the call of reduce.
ReduceFun(a, x) ==
  CASE op = "reduce" -> Combine(fun, a, x)
    [] op = "max" -> MaxFun(a, x)
    [] op = "maxBy" -> MaxByFun(fun, a, x)

\* line 494: let acc = initial
ReduceEnter ==
  /\ op \in {"reduce", "max", "maxBy"}
  /\ pc = "start"
  /\ acc' = initial
  /\ pc' = "loop"
  /\ UNCHANGED <<callVars, current, repulls, pulled, cnt, i, currents, k, lastValue, calls, out, ret, err, frame2>>

\* lines 496-497: acc === undefined, the item becomes the accumulator.
ReduceSeed ==
  /\ op \in {"reduce", "max", "maxBy"}
  /\ pc = "loop"
  /\ pulled < Len(iterable)
  /\ acc = Undefined
  /\ pulled' = pulled + 1
  /\ acc' = iterable[pulled + 1]
  /\ UNCHANGED <<callVars, current, repulls, pc, cnt, i, currents, k, lastValue, calls, out, ret, err, frame2>>

\* lines 498-499: acc = fun(acc, item)
ReduceApply ==
  /\ op \in {"reduce", "max", "maxBy"}
  /\ pc = "loop"
  /\ pulled < Len(iterable)
  /\ acc # Undefined
  /\ pulled' = pulled + 1
  /\ acc' = ReduceFun(acc, iterable[pulled + 1])
  /\ calls' = Append(calls, <<acc, iterable[pulled + 1]>>)
  /\ UNCHANGED <<callVars, current, repulls, pc, cnt, i, currents, k, lastValue, out, ret, err, frame2>>

\* line 502: return acc
ReduceReturn ==
  /\ op \in {"reduce", "max", "maxBy"}
  /\ pc = "loop"
  /\ pulled = Len(iterable)
  /\ pc' = "done"
  /\ UNCHANGED <<callVars, current, repulls, pulled, cnt, i, currents, k, acc, lastValue, calls, out, ret, err, frame2>>

InitReduce ==
  /\ iterable \in SeqsUpTo(Elems, MaxLen)
  /\ endless = FALSE
  /\ count = 1
  /\ step = 1
  /\ n = 1
  /\ \/ /\ op = "reduce"
        /\ fun \in Combiners
        /\ initial \in Elems \cup {Undefined}
     \/ /\ op = "max"
        /\ fun = "none"
        /\ initial = Undefined
     \/ /\ op = "maxBy"
        /\ fun \in NumKeys
        /\ initial = Undefined
  /\ Frame1Rest("start")
  /\ Frame2Rest("idle")

NextReduce ==
  \/ ReduceEnter
  \/ ReduceSeed
  \/ ReduceApply
  \/ ReduceReturn

SpecReduce == InitReduce /\ [][NextReduce]_vars

----------------------------------------------------------------------------
(* streams.ts dedup (frame 1) *)

\* Mutation of DedupYield: line 122, lastValue = value, is missing.
DedupYieldNoUpdate ==
  /\ op = "dedup"
  /\ pc = "loop"
  /\ pulled < Len(iterable)
  /\ Key(fun, iterable[pulled + 1]) # lastValue
  /\ pulled' = pulled + 1
  /\ out' = Append(out, iterable[pulled + 1])
  /\ UNCHANGED <<callVars, current, repulls, pc, cnt, i, currents, k, acc, lastValue, calls, ret, err, frame2>>

\* lines 119-122: the key differs from lastValue, the item is yielded.
DedupYield ==
  /\ op = "dedup"
  /\ pc = "loop"
  /\ pulled < Len(iterable)
  /\ Key(fun, iterable[pulled + 1]) # lastValue
  /\ pulled' = pulled + 1
  /\ out' = Append(out, iterable[pulled + 1])
  /\ lastValue' = Key(fun, iterable[pulled + 1])
  /\ UNCHANGED <<callVars, current, repulls, pc, cnt, i, currents, k, acc, calls, ret, err, frame2>>

\* line 120 false: the item is passed over.
DedupSkip ==
  /\ op = "dedup"
  /\ pc = "loop"
  /\ pulled < Len(iterable)
  /\ Key(fun, iterable[pulled + 1]) = lastValue
  /\ pulled' = pulled + 1
  /\ UNCHANGED <<callVars, current, repulls, pc, cnt, i, currents, k, acc, lastValue, calls, out, ret, err, frame2>>

DedupReturn ==
  /\ op = "dedup"
  /\ pc = "loop"
  /\ pulled = Len(iterable)
  /\ pc' = "done"
  /\ UNCHANGED <<callVars, current, repulls, pulled, cnt, i, currents, k, acc, lastValue, calls, out, ret, err, frame2>>

InitDedup ==
  /\ op = "dedup"
  /\ iterable \in SeqsUpTo(Elems \cup {Undefined}, MaxLen)
  /\ endless = FALSE
  /\ count = 1
  /\ step = 1
  /\ n = 1
  /\ fun \in DedupKeys
  /\ initial = Undefined
  /\ Frame1Rest("loop")
  /\ Frame2Rest("idle")

NextDedup ==
  \/ DedupYield
  \/ DedupSkip
  \/ DedupReturn

SpecDedup == InitDedup /\ [][NextDedup]_vars

----------------------------------------------------------------------------
(* dedup(dedup(iterable, fun), fun): the inner generator in frame 1, the    *)
(* outer one in frame 2.  The inner generator runs only while the outer    *)
(* one waits for its next item.                                            *)

\* The outer for-of has consumed everything the inner generator yielded.
OuterWaits == pc2 = "loop" /\ pulled2 = Len(out)

InnerDedupYield == OuterWaits /\ DedupYield

InnerDedupSkip == OuterWaits /\ DedupSkip

InnerDedupReturn == OuterWaits /\ DedupReturn

\* streams.ts lines 118-124 in the outer generator: one iteration on the
\* item the inner generator has just yielded.
OuterDedupIter ==
  /\ op = "dedup"
  /\ pc2 = "loop"
  /\ pulled2 < Len(out)
  /\ pulled2' = pulled2 + 1
  /\ IF Key(fun, out[pulled2 + 1]) # lastValue2
       THEN /\ out2' = Append(out2, out[pulled2 + 1])
            /\ lastValue2' = Key(fun, out[pulled2 + 1])
       ELSE UNCHANGED <<out2, lastValue2>>
  /\ UNCHANGED <<callVars, frame1, pc2, cnt2, i2, currents2, k2, err2>>

\* the inner generator is finished: the outer for-of ends.
OuterDedupReturn ==
  /\ op = "dedup"
  /\ pc = "done"
  /\ OuterWaits
  /\ pc2' = "done"
  /\ UNCHANGED <<callVars, frame1, lastValue2, pulled2, cnt2, i2, currents2, k2, out2, err2>>

InitDedupTwice ==
  /\ op = "dedup"
  /\ iterable \in SeqsUpTo(Elems \cup {Undefined}, MaxLen)
  /\ endless = FALSE
  /\ count = 1
  /\ step = 1
  /\ n = 1
  /\ fun \in DedupKeys
  /\ initial = Undefined
  /\ Frame1Rest("loop")
  /\ Frame2Rest("loop")

NextDedupTwice ==
  \/ InnerDedupYield
  \/ InnerDedupSkip
  \/ InnerDedupReturn
  \/ OuterDedupIter
  \/ OuterDedupReturn

SpecDedupTwice == InitDedupTwice /\ [][NextDedupTwice]_vars

----------------------------------------------------------------------------
(* streams.ts chunkBy (frame 1), one loop iteration per step *)

\* Mutation of ChunkByIter: line 45, lastValue = value, is missing.
ChunkByIterNoUpdate ==
  /\ op = "chunkBy"
  /\ pc = "loop"
  /\ pulled < Len(iterable)
  /\ pulled' = pulled + 1
  /\ LET item == iterable[pulled + 1]
         value == Key(fun, item)
     IN  IF value # lastValue
           THEN /\ out' = IF Len(current) > 0 THEN Append(out, current) ELSE out
                /\ current' = <<item>>
           ELSE /\ out' = out
                /\ current' = Append(current, item)
  /\ UNCHANGED <<callVars, repulls, pc, cnt, i, currents, k, acc, lastValue, calls, ret, err, frame2>>

\* lines 38-48: a key that differs from lastValue closes the group under
\* construction, which is yielded unless empty, and opens a new one.
ChunkByIter ==
  /\ op = "chunkBy"
  /\ pc = "loop"
  /\ pulled < Len(iterable)
  /\ pulled' = pulled + 1
  /\ LET item == iterable[pulled + 1]
         value == Key(fun, item)
     IN  IF value # lastValue
           THEN /\ out' = IF Len(current) > 0 THEN Append(out, current) ELSE out
                /\ current' = <<item>>
                /\ lastValue' = value
           ELSE /\ out' = out
                /\ current' = Append(current, item)
                /\ lastValue' = lastValue
  /\ UNCHANGED <<callVars, repulls, pc, cnt, i, currents, k, acc, calls, ret, err, frame2>>

\* lines 49-52: the last group is yielded unless empty; the generator
\* returns.
ChunkByExhausted ==
  /\ op = "chunkBy"
  /\ pc = "loop"
  /\ pulled = Len(iterable)
  /\ out' = IF Len(current) > 0 THEN Append(out, current) ELSE out
  /\ pc' = "done"
  /\ UNCHANGED <<callVars, current, repulls, pulled, cnt, i, currents, k, acc, lastValue, calls, ret, err, frame2>>

InitChunkBy ==
  /\ op = "chunkBy"
  /\ iterable \in SeqsUpTo(Elems \cup {Undefined}, MaxLen)
  /\ endless = FALSE
  /\ count = 1
  /\ step = 1
  /\ n = 1
  /\ fun \in DedupKeys
  /\ initial = Undefined
  /\ Frame1Rest("loop")
  /\ Frame2Rest("idle")

NextChunkBy ==
  \/ ChunkByIter
  \/ ChunkByExhausted

SpecChunkBy == InitChunkBy /\ [][NextChunkBy]_vars

----------------------------------------------------------------------------
(* streams.ts any, all and find (frame 1), one loop iteration per step *)

\* The predicates passed to any / all / find; "identity" is the default
\* fun of any and all.
Preds == {"identity", "isOne", "never"}

\* fun(x) is truthy, for the predicate named f.
Truthy(f, x) ==
  CASE f = "identity" -> x # Undefined
    [] f = "isOne" -> x = 1
    [] f = "never" -> FALSE

\* The test that ends the search: all = empty(reject(iterable, fun)) looks
\* for an element with !fun(x) (lines 7, 511), any = !empty(filter(iterable,
\* fun)) and find for one with fun(x) (lines 16, 187, 203).
Sought(x) == IF op = "all" THEN ~Truthy(fun, x) ELSE Truthy(fun, x)

\* The for-of can obtain one more item; an endless source is followed for
\* MaxLen items only.
SearchCanPull == SrcHas(pulled + 1) /\ (endless => pulled < MaxLen)

\* Mutation of SearchHit: the loop goes on after the element sought.
SearchHitGoesOn ==
  /\ op \in {"any", "all", "find"}
  /\ pc = "loop"
  /\ SearchCanPull
  /\ Sought(SrcItem(pulled + 1))
  /\ pulled' = pulled + 1
  /\ calls' = Append(calls, SrcItem(pulled + 1))
  /\ UNCHANGED <<callVars, current, repulls, pc, cnt, i, currents, k, acc, lastValue, out, ret, err, frame2>>

\* The element sought is obtained.  filter yields it (line 188) and empty
\* returns false at once (line 176), so any is true and all is false; find
\* returns the item (line 204).  Nothing more is pulled.
SearchHit ==
  /\ op \in {"any", "all", "find"}
  /\ pc = "loop"
  /\ SearchCanPull
  /\ Sought(SrcItem(pulled + 1))
  /\ pulled' = pulled + 1
  /\ calls' = Append(calls, SrcItem(pulled + 1))
  /\ ret' = CASE op = "any" -> "true"
              [] op = "all" -> "false"
              [] op = "find" -> "item"
  /\ out' = IF op = "find" THEN <<SrcItem(pulled + 1)>> ELSE out
  /\ pc' = "done"
  /\ UNCHANGED <<callVars, current, repulls, cnt, i, currents, k, acc, lastValue, err, frame2>>

\* Another element is obtained: filter / find go on (lines 186-187, 202-203).
SearchMiss ==
  /\ op \in {"any", "all", "find"}
  /\ pc = "loop"
  /\ SearchCanPull
  /\ ~Sought(SrcItem(pulled + 1))
  /\ pulled' = pulled + 1
  /\ calls' = Append(calls, SrcItem(pulled + 1))
  /\ UNCHANGED <<callVars, current, repulls, pc, cnt, i, currents, k, acc, lastValue, out, ret, err, frame2>>

\* The source is exhausted: empty returns true (line 178), so any is false
\* and all is true; find returns defaultValue (line 207).
SearchExhausted ==
  /\ op \in {"any", "all", "find"}
  /\ pc = "loop"
  /\ ~SrcHas(pulled + 1)
  /\ ret' = CASE op = "any" -> "false"
              [] op = "all" -> "true"
              [] op = "find" -> "default"
  /\ pc' = "done"
  /\ UNCHANGED <<callVars, current, repulls, pulled, cnt, i, currents, k, acc, lastValue, calls, out, err, frame2>>

InitSearch ==
  /\ op \in {"any", "all", "find"}
  /\ \/ endless = FALSE /\ iterable \in SeqsUpTo(Elems \cup {Undefined}, MaxLen)
     \/ endless = TRUE /\ iterable = <<>>
  /\ count = 1
  /\ step = 1
  /\ n = 1
  /\ fun \in Preds
  /\ initial = Undefined
  /\ Frame1Rest("loop")
  /\ Frame2Rest("idle")

NextSearch ==
  \/ SearchHit
  \/ SearchMiss
  \/ SearchExhausted

SpecSearch == InitSearch /\ [][NextSearch]_vars

----------------------------------------------------------------------------
(* take under a consumer that keeps calling next() *)

\* Mutation of TakeRepull: the finished generator pulls from the source.
TakeRepullResumes ==
  /\ op = "take"
  /\ pc = "done"
  /\ repulls < MaxRepull
  /\ repulls' = repulls + 1
  /\ pulled' = pulled + 1
  /\ UNCHANGED <<callVars, current, pc, cnt, i, currents, k, acc, lastValue, calls, out, ret, err, frame2>>

\* next() on the generator of streams.js:463-471 after its body has ended
\* (by the break or by the end of the for-of): the body is not run again,
\* the answer is {done: true}.
TakeRepull ==
  /\ op = "take"
  /\ pc = "done"
  /\ repulls < MaxRepull
  /\ repulls' = repulls + 1
  /\ UNCHANGED <<callVars, current, pc, pulled, cnt, i, currents, k, acc, lastValue, calls, out, ret, err, frame2>>

\* One next() of the consumer on take's generator.
TakeNext ==
  \/ TakeYield
  \/ TakeBreak
  \/ TakeExhausted
  \/ TakeRepull

\* The consumer keeps pulling: a next() that is possible is made.
SpecTakeLive == InitTake /\ [][TakeNext]_vars /\ WF_vars(TakeNext)

----------------------------------------------------------------------------
(* Claims about the windowing operators (SpecWindow) *)

ValidChunkArgs == count >= 1 /\ step >= 1

ChunkEveryDone == op = "chunkEvery" /\ pc = "done"

\* The contiguous slice of the input a window opened at offset o covers.
Slice(o) == SubSeq(iterable, o + 1, Min(o + count, Len(iterable)))

\* The offsets k*step < Len(iterable) at which a window opens.
Offsets == {o \in 0..(Len(iterable) - 1) : o % step = 0}

RECURSIVE KeepFrom(_, _, _)
\* s without the elements at the 1-based positions p, p+1, ... for which
\* (position - 1) mod m = 0.
KeepFrom(s, p, m) ==
  IF p > Len(s) THEN <<>>
  ELSE (IF (p - 1) % m # 0 THEN <<s[p]>> ELSE <<>>) \o KeepFrom(s, p + 1, m)

\* C1: draining the streams.ts dropEvery(S, n), n >= 1, yields S without its
\* 1st, (n+1)-th, (2n+1)-th, ... elements.
C1_DropEveryOutput ==
  (op = "dropEvery" /\ pc = "done" /\ n >= 1) => out = KeepFrom(iterable, 1, n)

\* C2: the chunks of chunkEvery come out in the order their windows were
\* opened: strictly increasing start offsets can be assigned to the emitted
\* chunks, partial windows emitted at exhaustion included.
C2_OpenOrder ==
  (ChunkEveryDone /\ ValidChunkArgs) =>
    \E f \in [DOMAIN out -> Offsets] :
      /\ \A j \in DOMAIN out : out[j] = Slice(f[j])
      /\ \A j \in DOMAIN out : j > 1 => f[j - 1] < f[j]

\* C3: chunkEvery emits exactly one chunk per offset k*step < L, the slice
\* from k*step up to min(k*step + count, L); nothing else is emitted, no
\* chunk is empty and no error is raised.
C3_ChunkPerOffset ==
  (ChunkEveryDone /\ ValidChunkArgs) =>
    /\ err = "none"
    /\ \A j \in DOMAIN out : out[j] # <<>>
    /\ Len(out) = Cardinality(Offsets)
    /\ \A c \in {out[j] : j \in DOMAIN out} \cup {Slice(o) : o \in Offsets} :
         Cardinality({j \in DOMAIN out : out[j] = c})
           = Cardinality({o \in Offsets : Slice(o) = c})

\* C3 witness: a run with step > count (elements skipped between chunks)
\* whose last chunk is a partial window.
C3_Witness ==
  /\ ChunkEveryDone
  /\ count >= 2
  /\ step > count
  /\ Len(out) >= 2
  /\ Len(out[Len(out)]) < count

\* C9: a non-positive count or step is rejected when chunkEvery is
\* constructed, before anything is pulled, and no output is produced.
C9_RejectsNonPositive ==
  (ChunkEveryDone /\ ~ValidChunkArgs) =>
    /\ err = "InvalidArgument"
    /\ pulled = 0
    /\ out = <<>>

\* C10: for valid arguments, draining the lists.js operator and draining the
\* streams.ts operator give the same elements in the same order, and
\* neither raises an error the other does not.
C10_TwinsAgree ==
  ( /\ pc = "done"
    /\ pc2 \in {"done", "threw"}
    /\ \/ op = "chunkEvery" /\ ValidChunkArgs
       \/ op = "dropEvery" /\ n >= 1 ) =>
    /\ err2 = err
    /\ out2 = out

----------------------------------------------------------------------------
(* Claims about take and drop (SpecTake) *)

\* C4: draining take(S, n) requests at most n elements from a source that
\* has more than n elements (or never ends).
C4_TakePullsAtMostN ==
  (op = "take" /\ pc = "done" /\ (endless \/ Len(iterable) > n)) => pulled <= n

\* C5: take(S, n) yields the first min(n, |S|) elements of S, drop(S, n) on
\* another copy yields the remaining ones, and the two outputs concatenated
\* are S.
C5_TakeDropSplit ==
  (op = "take" /\ ~endless /\ pc = "done" /\ pc2 = "done") =>
    /\ out = SubSeq(iterable, 1, Min(n, Len(iterable)))
    /\ out2 = SubSeq(iterable, Min(n, Len(iterable)) + 1, Len(iterable))
    /\ out \o out2 = iterable

\* C5 witness: both runs are over and the split is a proper one.
C5_Witness ==
  /\ op = "take"
  /\ ~endless
  /\ pc = "done"
  /\ pc2 = "done"
  /\ 0 < n
  /\ n < Len(iterable)
  /\ out # <<>>
  /\ out2 # <<>>

----------------------------------------------------------------------------
(* Claims about reduce, max and maxBy (SpecReduce) *)

RECURSIVE FoldL(_, _, _)
\* The left fold f(...f(f(a, s1), s2)..., sk) of the combining function f.
FoldL(f, a, s) ==
  IF s = <<>> THEN a ELSE FoldL(f, Combine(f, a, Head(s)), Tail(s))

\* C6: reduce is a left fold, also for a combining function that may return
\* undefined: with an initial value the result is the fold from it; without
\* one the first element seeds the accumulator, fun is applied once to each
\* later element in order, and the result of an empty input is undefined.
C6_ReduceIsLeftFold ==
  (op = "reduce" /\ pc = "done") =>
    IF initial # Undefined
      THEN acc = FoldL(fun, initial, iterable)
      ELSE IF iterable = <<>>
        THEN acc = Undefined
        ELSE /\ acc = FoldL(fun, Head(iterable), Tail(iterable))
             /\ Len(calls) = Len(iterable) - 1
             /\ \A j \in DOMAIN calls : calls[j][2] = iterable[j + 1]

\* C7: on a non-empty input maxBy returns an element whose key is maximal,
\* and max returns a maximal element.
C7_MaxByIsMaximal ==
  (op \in {"max", "maxBy"} /\ pc = "done" /\ iterable # <<>>) =>
    /\ \E j \in DOMAIN iterable : iterable[j] = acc
    /\ op = "maxBy" =>
         \A j \in DOMAIN iterable : Key(fun, iterable[j]) <= Key(fun, acc)
    /\ op = "max" =>
         \A j \in DOMAIN iterable : iterable[j] <= acc

----------------------------------------------------------------------------
(* Claims about dedup (SpecDedup) *)

RECURSIVE DedupFrom(_, _, _, _)
\* The elements of s from position p on that differ in key from the most
\* recently emitted element, whose key is last; the first element is
\* emitted whatever its key (emitted = FALSE until then).
DedupFrom(s, p, emitted, last) ==
  IF p > Len(s) THEN <<>>
  ELSE IF ~emitted \/ Key(fun, s[p]) # last
    THEN <<s[p]>> \o DedupFrom(s, p + 1, TRUE, Key(fun, s[p]))
    ELSE DedupFrom(s, p + 1, emitted, last)

\* C8: dedup always emits the first element, and each later element exactly
\* when its key is not strictly equal to the key of the most recently
\* emitted element, in input order, undefined being a value like any other.
C8_DedupOutput ==
  (op = "dedup" /\ pc = "done") => out = DedupFrom(iterable, 1, FALSE, Undefined)

----------------------------------------------------------------------------
(* Further claims about chunkEvery (SpecWindow) *)

RECURSIVE Flatten(_)
\* The concatenation of a sequence of sequences.
Flatten(ss) == IF ss = <<>> THEN <<>> ELSE Head(ss) \o Flatten(Tail(ss))

\* ceil(a / b) for b >= 1
CeilDiv(a, b) == (a + b - 1) \div b

\* C11: with step = count the chunks of chunkEvery, concatenated in emission
\* order, are the input; every chunk but the last has count elements and
\* the last has between 1 and count.
C11_TilingReconstructs ==
  (ChunkEveryDone /\ count >= 1 /\ step = count) =>
    /\ Flatten(out) = iterable
    /\ \A j \in DOMAIN out : j < Len(out) => Len(out[j]) = count
    /\ out # <<>> => (1 <= Len(out[Len(out)]) /\ Len(out[Len(out)]) <= count)

\* C11 witness: a tiling of several chunks that ends in a shorter one.
C11_Witness ==
  /\ ChunkEveryDone
  /\ count >= 2
  /\ step = count
  /\ Len(out) >= 2
  /\ Len(out[Len(out)]) < count

\* C15: at every point of chunkEvery's execution at most ceil(count/step)
\* windows are open, and each holds at most count elements.
C15_BoundedWindows ==
  (op = "chunkEvery" /\ ValidChunkArgs) =>
    /\ Len(currents) <= CeilDiv(count, step)
    /\ \A j \in DOMAIN currents : Len(currents[j]) <= count

\* C15 witness: overlapping windows, the full one yielded and not yet
\* removed, with the buffer at its bound.
C15_Witness ==
  /\ op = "chunkEvery"
  /\ ValidChunkArgs
  /\ pc = "yielded"
  /\ step < count
  /\ Len(currents) >= 2
  /\ Len(currents) = CeilDiv(count, step)

----------------------------------------------------------------------------
(* Claims about dedup of dedup (SpecDedupTwice) and chunkBy (SpecChunkBy) *)

\* C12: with the identity key, draining dedup(dedup(S)) gives the same
\* sequence as draining dedup(S), undefined being among the elements.
C12_DedupIdempotent ==
  (op = "dedup" /\ fun = "identity" /\ pc = "done" /\ pc2 = "done") => out2 = out

\* C12 witness: an input with an undefined element and a repeated element,
\* of which the inner dedup has removed something.
C12_Witness ==
  /\ op = "dedup"
  /\ fun = "identity"
  /\ pc = "done"
  /\ pc2 = "done"
  /\ \E j \in DOMAIN iterable : iterable[j] = Undefined
  /\ Len(out) >= 2
  /\ Len(out) < Len(iterable)

\* C13: chunkBy emits the maximal runs of consecutive equal keys: no group
\* is empty, a group has one key, neighbouring groups differ in key where
\* they meet, and the groups concatenated are the input.
C13_ChunkByRuns ==
  (op = "chunkBy" /\ pc = "done") =>
    /\ \A j \in DOMAIN out : out[j] # <<>>
    /\ \A j \in DOMAIN out : \A a \in DOMAIN out[j] :
         Key(fun, out[j][a]) = Key(fun, out[j][1])
    /\ \A j \in DOMAIN out : j > 1 =>
         Key(fun, out[j - 1][Len(out[j - 1])]) # Key(fun, out[j][1])
    /\ Flatten(out) = iterable

\* C13 witness: the first key is undefined, and there are several groups,
\* one of them of several elements.
C13_Witness ==
  /\ op = "chunkBy"
  /\ pc = "done"
  /\ iterable # <<>>
  /\ Key(fun, iterable[1]) = Undefined
  /\ Len(out) >= 2
  /\ \E j \in DOMAIN out : Len(out[j]) >= 2

----------------------------------------------------------------------------
(* Claims about any, all and find (SpecSearch) *)

\* The call ended on the element sought rather than on exhaustion.
SearchFound ==
  \/ op = "any" /\ ret = "true"
  \/ op = "all" /\ ret = "false"
  \/ op = "find" /\ ret = "item"

\* C14: any and find request the elements up to and including the first
\* one with a truthy fun, all up to and including the first one with a
\* falsy fun, and none after it; fun is evaluated once on each requested
\* element in pull order; the source is followed to its end only when no
\* such element exists.
C14_ShortCircuit ==
  (op \in {"any", "all", "find"} /\ pc = "done") =>
    /\ calls = [j \in 1..pulled |-> SrcItem(j)]
    /\ \A j \in 1..(pulled - 1) : ~Sought(SrcItem(j))
    /\ IF SearchFound
         THEN pulled >= 1 /\ Sought(SrcItem(pulled))
         ELSE /\ ~endless
              /\ pulled = Len(iterable)
              /\ \A j \in 1..pulled : ~Sought(iterable[j])

\* C14 witness: the search stopped on the second element or later, with
\* elements of the source left unrequested.
C14_Witness ==
  /\ op \in {"any", "all", "find"}
  /\ pc = "done"
  /\ ~endless
  /\ SearchFound
  /\ pulled >= 2
  /\ pulled < Len(iterable)

----------------------------------------------------------------------------
(* Claims about take under repeated pulls (SpecTakeLive) *)

\* C16: on an endless source take emits n elements and then finishes, and a
\* finished take stays finished: later pulls neither pull from the source
\* nor emit.
C16_TakeTerminates ==
  /\ endless => <>(pc = "done" /\ Len(out) = n /\ repulls = MaxRepull)
  /\ [][pc = "done" => (pc' = "done" /\ pulled' = pulled /\ out' = out)]_vars

\* C16 witness: take on an endless source has finished after emitting
\* n >= 1 elements and has been pulled again.
C16_Witness ==
  /\ op = "take"
  /\ endless
  /\ pc = "done"
  /\ n >= 1
  /\ Len(out) = n
  /\ repulls >= 1

====
